---- MODULE Spec2Model ----
(***************************************************************************)
(* site-forge verify: the check pipeline of cmd main (ASSETS, BUILD,       *)
(* LIGHTHOUSE, SCREENSHOTS, VISION), the five check functions of           *)
(* internal/checks and the Report of internal/report.                      *)
(*                                                                         *)
(* The environment (directory tree, installed tools, subprocess results,   *)
(* API answers) is read by each check when it runs; it is drawn with \E in *)
(* the action of that check.  Strings of the program are TLA+ strings; the *)
(* text of an underlying OS error (%v) is one of a few sample texts.       *)
(***************************************************************************)
EXTENDS Integers, Sequences, FiniteSets, TLC

\* ------------------------------------------------------------------ bounds
MaxDocs == 2        \* HTML documents under the site root
MaxRefs == 1        \* references declared by one document
MaxSyms == 5        \* symbols of a reference given to the resolver
MaxSrcset == 6      \* symbols of a srcset value
MaxNodes == 2       \* element nodes of a parsed document
MaxToks == 4        \* tokens of an API answer given to CheckVision on its own

\* ------------------------------------------------------- program constants
DefaultThreshold == 7      \* flag "threshold"
DefaultLighthouse == 90    \* flags "lighthouse-perf", "-a11y", "-seo"

VARIABLES
    pc,          \* position of main
    created,     \* report.NewReport has run
    r,           \* the *report.Report of main
    args,        \* the parsed flags
    err,         \* main's local err ("" is nil)
    apiKey,      \* OPENROUTER_API_KEY is set in the process environment
    fs,          \* screenshots/desktop.png and screenshots/mobile.png
    pages,       \* HTML documents under the site root (what the walker finds)
    servers,     \* local file servers listening
    started,     \* the checks called so far, in call order
    printed,     \* the OVERALL line of each summary printed by printSummary
    serialized,  \* the reports marshalled by writeReport, in order
    disk,        \* forge-report.json as left on disk by this run
    hist,        \* what each error-returning check returned to main
    exitCode,    \* -1 while running, else the status given to os.Exit
    fn,          \* the function applied on its own ("" in a run of main)
    arg,         \* its arguments
    out,         \* what it returned
    done         \* it has returned

\* the run of main
pvars == <<pc, created, r, args, err, apiKey, fs, pages, servers, started,
           printed, serialized, disk, hist, exitCode>>

\* one function of the repository applied on its own
fvars == <<fn, arg, out, done>>

vars == <<pvars, fvars>>

Checks == <<"ASSETS", "BUILD", "LIGHTHOUSE", "SCREENSHOTS", "VISION">>

\* ---------------------------------------------------------------- helpers
RECURSIVE SeqsUpTo(_, _)
SeqsUpTo(S, n) ==
    IF n = 0 THEN {<<>>}
    ELSE LET shorter == SeqsUpTo(S, n - 1)
         IN  shorter \cup {Append(s, x) : s \in {t \in shorter : Len(t) = n - 1}, x \in S}

\* strings.Join(elems, ", ")
RECURSIVE Join(_)
Join(elems) ==
    IF Len(elems) = 0 THEN ""
    ELSE IF Len(elems) = 1 THEN elems[1]
    ELSE elems[1] \o ", " \o Join(Tail(elems))

\* ----------------------------------------------------------------- report
ZeroAssets == [Status |-> "", Total |-> 0, Missing |-> <<>>, Details |-> ""]
ZeroBuild == [Status |-> "", Pages |-> 0, Details |-> ""]
ZeroThresholds == [Performance |-> 0, Accessibility |-> 0, SEO |-> 0]
ZeroLighthouse ==
    [Status |-> "", Performance |-> 0, Accessibility |-> 0, SEO |-> 0,
     Thresholds |-> ZeroThresholds, Details |-> ""]
ZeroScreenshots == [Status |-> "", Desktop |-> "", Mobile |-> "", Details |-> ""]
ZeroVision ==
    [Status |-> "", Score |-> 0, Threshold |-> 0, Analysis |-> <<>>, Details |-> ""]

\* the Go zero value of Report
ZeroReport ==
    [Timestamp |-> "", Directory |-> "", Overall |-> "",
     Assets |-> ZeroAssets, Build |-> ZeroBuild, Lighthouse |-> ZeroLighthouse,
     Screenshots |-> ZeroScreenshots, Vision |-> ZeroVision]

\* mutant: the report starts as the zero value of the struct
NewReport_Zero(dir) == [ZeroReport EXCEPT !.Directory = dir]

NewReport(dir) ==
    [Timestamp |-> "", Directory |-> dir, Overall |-> "FAIL",
     Assets |-> [ZeroAssets EXCEPT !.Status = "FAIL"],
     Build |-> [ZeroBuild EXCEPT !.Status = "FAIL"],
     Lighthouse |-> [ZeroLighthouse EXCEPT !.Status = "FAIL"],
     Screenshots |-> [ZeroScreenshots EXCEPT !.Status = "FAIL"],
     Vision |-> [ZeroVision EXCEPT !.Status = "SKIP"]]

\* ------------------------------------------------------------------- JSON
\* A JSON object is a function from its keys; encoding/json leaves out a field
\* tagged omitempty whose value is empty ("", 0, a nil or empty slice), and
\* decoding leaves a field whose key is absent at its zero value.
Field(object, key, zero) == IF key \in DOMAIN object THEN object[key] ELSE zero

MarshalAssets(v) ==
    [k \in {"status", "total", "details"}
              \cup (IF v.Missing # <<>> THEN {"missing"} ELSE {}) |->
        CASE k = "status" -> v.Status
          [] k = "total" -> v.Total
          [] k = "missing" -> v.Missing
          [] k = "details" -> v.Details]

MarshalBuild(v) ==
    [k \in {"status", "pages", "details"} |->
        CASE k = "status" -> v.Status
          [] k = "pages" -> v.Pages
          [] k = "details" -> v.Details]

MarshalThresholds(v) ==
    [k \in {"performance", "accessibility", "seo"} |->
        CASE k = "performance" -> v.Performance
          [] k = "accessibility" -> v.Accessibility
          [] k = "seo" -> v.SEO]

\* mutant: the thresholds are not written
MarshalLighthouse_NoThresholds(v) ==
    [k \in {"status", "performance", "accessibility", "seo"}
              \cup (IF v.Details # "" THEN {"details"} ELSE {}) |->
        CASE k = "status" -> v.Status
          [] k = "performance" -> v.Performance
          [] k = "accessibility" -> v.Accessibility
          [] k = "seo" -> v.SEO
          [] k = "details" -> v.Details]

MarshalLighthouse(v) ==
    [k \in {"status", "performance", "accessibility", "seo", "thresholds"}
              \cup (IF v.Details # "" THEN {"details"} ELSE {}) |->
        CASE k = "status" -> v.Status
          [] k = "performance" -> v.Performance
          [] k = "accessibility" -> v.Accessibility
          [] k = "seo" -> v.SEO
          [] k = "thresholds" -> MarshalThresholds(v.Thresholds)
          [] k = "details" -> v.Details]

MarshalScreenshots(v) ==
    [k \in {"status"} \cup (IF v.Desktop # "" THEN {"desktop"} ELSE {})
                      \cup (IF v.Mobile # "" THEN {"mobile"} ELSE {})
                      \cup (IF v.Details # "" THEN {"details"} ELSE {}) |->
        CASE k = "status" -> v.Status
          [] k = "desktop" -> v.Desktop
          [] k = "mobile" -> v.Mobile
          [] k = "details" -> v.Details]

MarshalVision(v) ==
    [k \in {"status", "threshold"} \cup (IF v.Score # 0 THEN {"score"} ELSE {})
                                   \cup (IF v.Analysis # <<>> THEN {"analysis"} ELSE {})
                                   \cup (IF v.Details # "" THEN {"details"} ELSE {}) |->
        CASE k = "status" -> v.Status
          [] k = "score" -> v.Score
          [] k = "threshold" -> v.Threshold
          [] k = "analysis" -> v.Analysis
          [] k = "details" -> v.Details]

MarshalChecks(rep) ==
    [k \in {"assets", "build", "lighthouse", "screenshots", "vision"} |->
        CASE k = "assets" -> MarshalAssets(rep.Assets)
          [] k = "build" -> MarshalBuild(rep.Build)
          [] k = "lighthouse" -> MarshalLighthouse(rep.Lighthouse)
          [] k = "screenshots" -> MarshalScreenshots(rep.Screenshots)
          [] k = "vision" -> MarshalVision(rep.Vision)]

\* json.MarshalIndent(r, "", "  ")
Marshal(rep) ==
    [k \in {"timestamp", "directory", "overall", "checks"} |->
        CASE k = "timestamp" -> rep.Timestamp
          [] k = "directory" -> rep.Directory
          [] k = "overall" -> rep.Overall
          [] k = "checks" -> MarshalChecks(rep)]

UnmarshalThresholds(object) ==
    [Performance |-> Field(object, "performance", 0),
     Accessibility |-> Field(object, "accessibility", 0),
     SEO |-> Field(object, "seo", 0)]

\* json.Unmarshal of the document into a zero Report
Unmarshal(object) ==
    LET checks == Field(object, "checks", <<>>)
        assets == Field(checks, "assets", <<>>)
        build == Field(checks, "build", <<>>)
        lighthouse == Field(checks, "lighthouse", <<>>)
        screenshots == Field(checks, "screenshots", <<>>)
        vision == Field(checks, "vision", <<>>)
    IN  [Timestamp |-> Field(object, "timestamp", ""),
         Directory |-> Field(object, "directory", ""),
         Overall |-> Field(object, "overall", ""),
         Assets |-> [Status |-> Field(assets, "status", ""),
                     Total |-> Field(assets, "total", 0),
                     Missing |-> Field(assets, "missing", <<>>),
                     Details |-> Field(assets, "details", "")],
         Build |-> [Status |-> Field(build, "status", ""),
                    Pages |-> Field(build, "pages", 0),
                    Details |-> Field(build, "details", "")],
         Lighthouse |-> [Status |-> Field(lighthouse, "status", ""),
                         Performance |-> Field(lighthouse, "performance", 0),
                         Accessibility |-> Field(lighthouse, "accessibility", 0),
                         SEO |-> Field(lighthouse, "seo", 0),
                         Thresholds |->
                             UnmarshalThresholds(Field(lighthouse, "thresholds", <<>>)),
                         Details |-> Field(lighthouse, "details", "")],
         Screenshots |-> [Status |-> Field(screenshots, "status", ""),
                          Desktop |-> Field(screenshots, "desktop", ""),
                          Mobile |-> Field(screenshots, "mobile", ""),
                          Details |-> Field(screenshots, "details", "")],
         Vision |-> [Status |-> Field(vision, "status", ""),
                     Score |-> Field(vision, "score", 0),
                     Threshold |-> Field(vision, "threshold", 0),
                     Analysis |-> Field(vision, "analysis", <<>>),
                     Details |-> Field(vision, "details", "")]]

\* ------------------------------------------------------------------ paths
\* A path or reference is a sequence of symbols: the separator "/", the dot,
\* and names that hold neither ("images" and "_astro" are the two names the
\* resolver looks for, "x" any other name).
Syms == {"/", ".", "images", "_astro", "x"}
References == UNION { [1..n -> Syms] : n \in 0..MaxSyms }

\* the directory main passes to the checks, an absolute clean path
DistDir == <<"/", "srv", "/", "dist">>

HasPrefix(s, prefix) ==
    Len(s) >= Len(prefix) /\ SubSeq(s, 1, Len(prefix)) = prefix

\* strings.Index, counting from 1; 0 when substr does not occur
Index(s, substr) ==
    LET hits == { i \in 1..(Len(s) - Len(substr) + 1) :
                     SubSeq(s, i, i + Len(substr) - 1) = substr }
    IN  IF hits = {} THEN 0 ELSE CHOOSE i \in hits : \A j \in hits : i <= j

\* s[i:] with i counted from 1
From(s, i) == SubSeq(s, i, Len(s))

\* the elements of a path between its separators
RECURSIVE Elements(_)
Elements(path) ==
    LET i == Index(path, <<"/">>)
    IN  IF i = 0 THEN <<path>>
        ELSE <<SubSeq(path, 1, i - 1)>> \o Elements(From(path, i + 1))

\* filepath.Clean on the elements of a rooted path: empty and "." elements
\* go, ".." removes the element before it and goes itself at the root
RECURSIVE CleanElements(_, _, _)
CleanElements(elems, i, kept) ==
    IF i > Len(elems) THEN kept
    ELSE IF elems[i] \in {<<>>, <<".">>} THEN CleanElements(elems, i + 1, kept)
    ELSE IF elems[i] = <<".", ".">> THEN
        CleanElements(elems, i + 1,
                      IF kept = <<>> THEN kept ELSE SubSeq(kept, 1, Len(kept) - 1))
    ELSE CleanElements(elems, i + 1, Append(kept, elems[i]))

RECURSIVE Rooted(_)
Rooted(elems) ==
    IF elems = <<>> THEN <<>> ELSE <<"/">> \o Head(elems) \o Rooted(Tail(elems))

\* filepath.Clean of a rooted path (every path cleaned here starts with the
\* absolute DistDir)
Clean(path) ==
    LET kept == CleanElements(Elements(path), 1, <<>>)
    IN  IF kept = <<>> THEN <<"/">> ELSE Rooted(kept)

\* filepath.Join(dir, elem): empty elements are ignored, the rest joined with
\* the separator and cleaned
PathJoin(dir, elem) ==
    IF elem = <<>> THEN Clean(dir) ELSE Clean(dir \o <<"/">> \o elem)

ImagesDir == <<"/", "images", "/">>
AstroDir == <<"/", "_astro", "/">>

\* mutant: /_astro/ is looked for before /images/
assetPath_AstroFirst(distDir, asset) ==
    IF HasPrefix(asset, <<"/">>) THEN
        LET relPath ==
                IF Index(asset, AstroDir) > 0 THEN From(asset, Index(asset, AstroDir))
                ELSE IF Index(asset, ImagesDir) > 0
                     THEN From(asset, Index(asset, ImagesDir))
                ELSE asset
        IN  distDir \o relPath
    ELSE IF HasPrefix(asset, <<".", "/">>) THEN PathJoin(distDir, From(asset, 2))
    ELSE PathJoin(distDir, asset)

\* mutant: a reference starting with ./ is concatenated like a root-relative one
assetPath_DotConcat(distDir, asset) ==
    IF HasPrefix(asset, <<"/">>) THEN
        LET relPath ==
                IF Index(asset, ImagesDir) > 0 THEN From(asset, Index(asset, ImagesDir))
                ELSE IF Index(asset, AstroDir) > 0
                     THEN From(asset, Index(asset, AstroDir))
                ELSE asset
        IN  distDir \o relPath
    ELSE IF HasPrefix(asset, <<".", "/">>) THEN distDir \o From(asset, 2)
    ELSE PathJoin(distDir, asset)

\* the candidate path CheckAssets builds for one reference (the /favicon
\* branch keeps the reference as the last branch does)
assetPath(distDir, asset) ==
    IF HasPrefix(asset, <<"/">>) THEN
        LET relPath ==
                IF Index(asset, ImagesDir) > 0 THEN From(asset, Index(asset, ImagesDir))
                ELSE IF Index(asset, AstroDir) > 0
                     THEN From(asset, Index(asset, AstroDir))
                ELSE asset
        IN  distDir \o relPath
    ELSE IF HasPrefix(asset, <<".", "/">>) THEN PathJoin(distDir, From(asset, 2))
    ELSE PathJoin(distDir, asset)

\* os.Stat finds the file: the system resolves empty, "." and ".." elements
\* of the name as Clean does (no symbolic links among the files)
Stat(files, path) == Clean(path) \in files

\* ------------------------------------------------------------------- walk
\* A directory tree is what os.ReadDir gives for each directory: an error, or
\* the entries sorted by name.  A directory is named by the sequence of names
\* leading to it from the root.  The names, in the order ReadDir sorts them;
\* "a" and "e.html" name directories, the others files.
NameOrder == <<"a", "b.html", "c.htm", "d.txt", "e.html">>
DirNames == {"a", "e.html"}

\* the directories a tree may hold and the names each may list
DirPaths == { <<>>, <<"a">>, <<"a", "a">>, <<"e.html">> }
MayList(dir) ==
    CASE dir = <<>> -> {"a", "b.html", "c.htm", "d.txt", "e.html"}
      [] dir = <<"a">> -> {"a", "b.html", "d.txt"}
      [] dir = <<"a", "a">> -> {"c.htm"}
      [] dir = <<"e.html">> -> {"b.html"}

\* the result of os.ReadDir
Listing(names) ==
    LET sorted == SelectSeq(NameOrder, LAMBDA n : n \in names)
    IN  [err |-> "",
         entries |-> [i \in 1..Len(sorted) |->
                         [name |-> sorted[i], isDir |-> sorted[i] \in DirNames]]]
Unreadable == [err |-> "permission denied", entries |-> <<>>]
NoSuchDir == [err |-> "no such file or directory", entries |-> <<>>]

ReadDirResults(dir) == { Listing(names) : names \in SUBSET MayList(dir) } \cup {Unreadable}

\* what ReadDir may give for dir, given what it gave for the parent: dir is
\* there only if the parent lists its name
Under(parent, dir) ==
    IF \E k \in 1..Len(parent.entries) : parent.entries[k].name = dir[Len(dir)]
    THEN ReadDirResults(dir) ELSE {NoSuchDir}

Tree(root, a, aa, e) ==
    [d \in DirPaths |->
        CASE d = <<>> -> root
          [] d = <<"a">> -> a
          [] d = <<"a", "a">> -> aa
          [] d = <<"e.html">> -> e]

Trees ==
    UNION { UNION { { Tree(root, a, aa, e) :
                        aa \in Under(a, <<"a", "a">>), e \in Under(root, <<"e.html">>) } :
                    a \in Under(root, <<"a">>) } :
            root \in ReadDirResults(<<>>) }

\* mutant: only .html counts
IsHTML_HtmlOnly(name) == name \in {"b.html", "e.html"}

\* strings.HasSuffix(name, ".html") || strings.HasSuffix(name, ".htm")
IsHTML(name) == name \in {"b.html", "c.htm", "e.html"}

\* mutant: the files of a subdirectory are put before those found so far
AppendSub_Front(files, subFiles) == subFiles \o files

\* files = append(files, subFiles...)
AppendSub(files, subFiles) == files \o subFiles

RECURSIVE findHTMLFiles(_, _)
RECURSIVE WalkEntries(_, _, _, _)

\* the loop of findHTMLFiles over the entries of dir, from the i-th on
WalkEntries(tree, dir, i, files) ==
    IF i > Len(tree[dir].entries) THEN [files |-> files, err |-> ""]
    ELSE LET entry == tree[dir].entries[i]
             path == Append(dir, entry.name)
         IN  IF entry.isDir THEN
                 LET sub == findHTMLFiles(tree, path)
                 IN  IF sub.err # "" THEN [files |-> <<>>, err |-> sub.err]
                     ELSE WalkEntries(tree, dir, i + 1, AppendSub(files, sub.files))
             ELSE IF IsHTML(entry.name) THEN
                 WalkEntries(tree, dir, i + 1, Append(files, path))
             ELSE WalkEntries(tree, dir, i + 1, files)

findHTMLFiles(tree, dir) ==
    IF tree[dir].err # "" THEN [files |-> <<>>, err |-> tree[dir].err]
    ELSE WalkEntries(tree, dir, 1, <<>>)

\* ---------------------------------------------------------------- extract
\* An attribute value is a sequence of symbols.  In a srcset value they are
\* the comma, the space, another white-space character ("tab") and two
\* stretches of other characters.
Whitespace == {" ", "tab"}
SrcsetSyms == {",", " ", "tab", "a", "b"}
SrcsetValues == UNION { [1..n -> SrcsetSyms] : n \in 0..MaxSrcset }

\* strings.Split(s, sep) for a separator of one symbol
RECURSIVE Split(_, _)
Split(s, sep) ==
    LET i == Index(s, <<sep>>)
    IN  IF i = 0 THEN <<s>>
        ELSE <<SubSeq(s, 1, i - 1)>> \o Split(From(s, i + 1), sep)

\* strings.TrimSpace
RECURSIVE TrimSpace(_)
TrimSpace(s) ==
    IF s = <<>> THEN s
    ELSE IF Head(s) \in Whitespace THEN TrimSpace(Tail(s))
    ELSE IF s[Len(s)] \in Whitespace THEN TrimSpace(SubSeq(s, 1, Len(s) - 1))
    ELSE s

\* the references extractAssets takes from one srcset value
srcsetSources(val) ==
    LET parts == Split(val, ",")
        src == [i \in 1..Len(parts) |-> TrimSpace(Split(parts[i], " ")[1])]
    IN  SelectSeq(src, LAMBDA u : u # <<>>)

\* the sequences of a sequence of sequences, one after the other
RECURSIVE Concat(_)
Concat(seqs) == IF seqs = <<>> THEN <<>> ELSE Head(seqs) \o Concat(Tail(seqs))

Attr(key, val) == [Key |-> key, Val |-> val]
Node(data, attrs) == [Data |-> data, Attr |-> attrs]

\* the element nodes a parsed document may hold; the parser gives an element
\* each attribute name once
Nodes ==
    { Node("img", a) : a \in { <<Attr("src", <<"x">>)>>,
                               <<Attr("alt", <<"x">>), Attr("src", <<"y">>)>>,
                               <<Attr("src", <<"data:", "x">>)>>,
                               <<Attr("src", <<>>)>> } }
    \cup { Node("link", a) : a \in { <<Attr("rel", <<"stylesheet">>), Attr("href", <<"x">>)>>,
                                     <<Attr("href", <<"y">>), Attr("rel", <<"icon">>)>>,
                                     <<Attr("href", <<"x">>), Attr("rel", <<"shortcut">>)>>,
                                     <<Attr("href", <<"x">>), Attr("rel", <<"preload">>)>>,
                                     <<Attr("href", <<"x">>)>>,
                                     <<Attr("rel", <<"stylesheet">>), Attr("href", <<>>)>> } }
    \cup { Node("script", a) : a \in { <<Attr("src", <<"x">>)>>, <<Attr("src", <<>>)>>, <<>> } }
    \cup { Node("source", a) : a \in { <<Attr("srcset", <<"a">>)>>,
                                       <<Attr("srcset", <<"a", " ", "b", ",", "b">>)>>,
                                       <<Attr("srcset", <<"a", " ", "b", ",", " ", "b">>)>>,
                                       <<Attr("srcset", <<>>)>> } }
    \cup { Node("a", <<Attr("href", <<"x">>)>>) }

\* the element nodes of a document in the order extract visits them
Documents == SeqsUpTo(Nodes, MaxNodes)

StyleRels == { <<"stylesheet">>, <<"icon">>, <<"shortcut">> }

\* what extract appends for one attribute of an element
attrAssets(n, attr) ==
    CASE n.Data = "img" ->
            IF attr.Key = "src" /\ attr.Val # <<>> /\ ~HasPrefix(attr.Val, <<"data:">>)
            THEN <<attr.Val>> ELSE <<>>
      [] n.Data = "link" ->
            IF /\ attr.Key = "href"
               /\ attr.Val # <<>>
               /\ \E k \in 1..Len(n.Attr) :
                      n.Attr[k].Key = "rel" /\ n.Attr[k].Val \in StyleRels
            THEN <<attr.Val>> ELSE <<>>
      [] n.Data = "script" ->
            IF attr.Key = "src" /\ attr.Val # <<>> THEN <<attr.Val>> ELSE <<>>
      [] n.Data = "source" ->
            IF attr.Key = "srcset" /\ attr.Val # <<>> THEN srcsetSources(attr.Val)
            ELSE <<>>
      [] OTHER -> <<>>

\* extractAssets on a document that was read and parsed
extractAssets(nodes) ==
    Concat([i \in 1..Len(nodes) |->
               Concat([k \in 1..Len(nodes[i].Attr) |->
                          attrAssets(nodes[i], nodes[i].Attr[k])])])

\* ----------------------------------------------------------------- assets
Refs == {"/images/a.png", "style.css"}
OsErrors == {"permission denied"}

\* one HTML document: unreadable, or the references extractAssets returns
Docs == [readErr : {""} \cup OsErrors, refs : SeqsUpTo(Refs, MaxRefs)]

\* mutant: a reference already recorded as missing is not recorded again
RECURSIVE ScanDocs_Distinct(_, _, _, _, _)
ScanDocs_Distinct(docs, i, total, missing, present) ==
    IF i > Len(docs) THEN [err |-> "", total |-> total, missing |-> missing]
    ELSE IF docs[i].readErr # "" THEN
        [err |-> "Error parsing doc" \o ToString(i) \o ": " \o docs[i].readErr,
         total |-> total, missing |-> missing]
    ELSE LET assets == docs[i].refs
             gone == SelectSeq(assets, LAMBDA a :
                         a \notin present /\ \A k \in 1..Len(missing) : missing[k] # a)
         IN  ScanDocs_Distinct(docs, i + 1, total + Len(assets), missing \o gone, present)

\* the loop over htmlFiles and their assets; present is the set of references
\* whose candidate path os.Stat finds
RECURSIVE ScanDocs(_, _, _, _, _)
ScanDocs(docs, i, total, missing, present) ==
    IF i > Len(docs) THEN [err |-> "", total |-> total, missing |-> missing]
    ELSE IF docs[i].readErr # "" THEN
        [err |-> "Error parsing doc" \o ToString(i) \o ": " \o docs[i].readErr,
         total |-> total, missing |-> missing]
    ELSE LET assets == docs[i].refs
             gone == SelectSeq(assets, LAMBDA a : a \notin present)
         IN  ScanDocs(docs, i + 1, total + Len(assets), missing \o gone, present)

\* mutant: a site without documents passes
NoHTMLFiles_Pass ==
    [ZeroAssets EXCEPT !.Status = "PASS", !.Details = "0/0 assets verified"]

\* the result for a site in which no HTML file was found
NoHTMLFiles ==
    [ZeroAssets EXCEPT !.Status = "FAIL",
                       !.Details = "No HTML files found in dist directory"]

\* mutant: a site without references fails
AssetsVerdict_NonZero(total, missing) ==
    IF Len(missing) > 0 \/ total = 0 THEN
        [Status |-> "FAIL", Total |-> total, Missing |-> missing,
         Details |-> "Missing " \o ToString(Len(missing)) \o " assets"]
    ELSE
        [Status |-> "PASS", Total |-> total, Missing |-> missing,
         Details |-> ToString(total) \o "/" \o ToString(total) \o " assets verified"]

\* the result once every document was scanned
AssetsVerdict(total, missing) ==
    IF Len(missing) > 0 THEN
        [Status |-> "FAIL", Total |-> total, Missing |-> missing,
         Details |-> "Missing " \o ToString(Len(missing)) \o " assets"]
    ELSE
        [Status |-> "PASS", Total |-> total, Missing |-> missing,
         Details |-> ToString(total) \o "/" \o ToString(total) \o " assets verified"]

CheckAssets(walkErr, docs, present) ==
    IF walkErr # "" THEN
        [ZeroAssets EXCEPT !.Status = "FAIL",
                           !.Details = "Error finding HTML files: " \o walkErr]
    ELSE IF Len(docs) = 0 THEN NoHTMLFiles
    ELSE LET s == ScanDocs(docs, 1, 0, <<>>, present)
         IN  IF s.err # "" THEN
                 [ZeroAssets EXCEPT !.Status = "FAIL", !.Details = s.err]
             ELSE AssetsVerdict(s.total, s.missing)

\* ------------------------------------------------------------------ build
Requirements == <<"html", "head", "body", "title", "description", "og:title">>

BuildError(req) ==
    CASE req = "html" -> "missing <html> tag"
      [] req = "head" -> "missing <head> tag"
      [] req = "body" -> "missing <body> tag"
      [] req = "title" -> "missing <title> tag"
      [] req = "description" -> "missing meta description"
      [] req = "og:title" -> "missing og:title meta tag"

\* mutant: the requirements are reported last to first
BuildErrors_Reversed(reqs, has) ==
    LET n == Len(reqs)
        lacking == SelectSeq([i \in 1..n |-> reqs[n + 1 - i]], LAMBDA q : q \notin has)
    IN  [i \in 1..Len(lacking) |-> BuildError(lacking[i])]

RECURSIVE BuildErrors(_, _)
BuildErrors(reqs, has) ==
    IF Len(reqs) = 0 THEN <<>>
    ELSE (IF reqs[1] \in has THEN <<>> ELSE <<BuildError(reqs[1])>>)
         \o BuildErrors(Tail(reqs), has)

\* index is "absent", an OS error text (ReadFile failed), or "ok"; has is the
\* set of requirements the parsed index.html meets; nPages is
\* len(findHTMLFiles(distDir)), 0 when the walk fails
CheckBuild(index, parseErr, has, nPages) ==
    IF index = "absent" THEN
        [ZeroBuild EXCEPT !.Status = "FAIL", !.Details = "index.html not found"]
    ELSE IF index # "ok" THEN
        [ZeroBuild EXCEPT !.Status = "FAIL",
                          !.Details = "Failed to read index.html: " \o index]
    ELSE IF parseErr # "" THEN
        [ZeroBuild EXCEPT !.Status = "FAIL",
                          !.Details = "HTML parse error: " \o parseErr]
    ELSE LET errors == BuildErrors(Requirements, has)
         IN  IF Len(errors) > 0 THEN
                 [Status |-> "FAIL", Pages |-> nPages, Details |-> Join(errors)]
             ELSE
                 [Status |-> "PASS", Pages |-> nPages,
                  Details |-> "Valid HTML, " \o ToString(nPages)
                              \o " page(s), meta tags present"]

\* ------------------------------------------------------------- lighthouse
NotInstalled == "lighthouse not installed (run: npm install -g lighthouse)"

\* what runLighthouse returns: an error text, or the three 0..100 scores
RunErrors == {"lighthouse timeout", "failed to parse lighthouse JSON: unexpected end"}
ScoreValues == {89, 90, 95}
Scores == [Performance : ScoreValues, Accessibility : ScoreValues, SEO : ScoreValues]
NoScores == [Performance |-> 0, Accessibility |-> 0, SEO |-> 0]

\* mutant: a score equal to its threshold fails
BelowThreshold_Inclusive(result, th) ==
    \/ result.Performance <= th.Performance
    \/ result.Accessibility <= th.Accessibility
    \/ result.SEO <= th.SEO

BelowThreshold(result, th) ==
    \/ result.Performance < th.Performance
    \/ result.Accessibility < th.Accessibility
    \/ result.SEO < th.SEO

\* available: isLighthouseAvailable(); portErr: findAvailablePort's error;
\* runErr, scores: what runLighthouse returns.  Yields result and error.
CheckLighthouse(available, portErr, runErr, scores, th) ==
    LET result == [ZeroLighthouse EXCEPT !.Status = "PASS", !.Thresholds = th]
    IN  IF ~available THEN [result |-> result, err |-> NotInstalled]
        ELSE IF portErr # "" THEN
            [result |-> result, err |-> "failed to find available port: " \o portErr]
        ELSE IF runErr # "" THEN
            [result |-> result, err |-> "lighthouse failed: " \o runErr]
        ELSE LET scored == [result EXCEPT !.Performance = scores.Performance,
                                          !.Accessibility = scores.Accessibility,
                                          !.SEO = scores.SEO]
                 status == IF BelowThreshold(scored, th) THEN "FAIL" ELSE "PASS"
             IN  [result |-> [scored EXCEPT
                                 !.Status = status,
                                 !.Details = "Perf: " \o ToString(scores.Performance)
                                             \o ", A11y: " \o ToString(scores.Accessibility)
                                             \o ", SEO: " \o ToString(scores.SEO)],
                  err |-> ""]

\* ------------------------------------------------------------ screenshots
DesktopPath == "screenshots/desktop.png"
MobilePath == "screenshots/mobile.png"
CaptureErrors == {"context deadline exceeded"}

\* the step of CaptureScreenshots that fails, "" when none does
CaptureSteps == <<"mkdir", "port", "desktop", "writeDesktop", "mobile", "writeMobile">>

ScreenshotDetail(step, e) ==
    CASE step = "mkdir" -> "Failed to create screenshots directory: " \o e
      [] step = "port" -> "Failed to find available port: " \o e
      [] step = "desktop" -> "Desktop screenshot failed: " \o e
      [] step = "writeDesktop" -> "Failed to write desktop screenshot: " \o e
      [] step = "mobile" -> "Mobile screenshot failed: " \o e
      [] step = "writeMobile" -> "Failed to write mobile screenshot: " \o e

\* failed: the failing step ("" for none), e: its error.  Yields result and error.
CaptureScreenshots(failed, e) ==
    IF failed # "" THEN
        [result |-> [ZeroScreenshots EXCEPT !.Status = "FAIL",
                                            !.Details = ScreenshotDetail(failed, e)],
         err |-> e]
    ELSE
        [result |-> [ZeroScreenshots EXCEPT !.Status = "PASS",
                                            !.Desktop = DesktopPath,
                                            !.Mobile = MobilePath],
         err |-> ""]

\* the files the capture leaves: a file is written once the steps before its
\* write and the write itself succeeded
FilesAfterCapture(files, failed) ==
    [files EXCEPT
        ![DesktopPath] = IF failed \in {"mkdir", "port", "desktop", "writeDesktop"}
                         THEN @ ELSE "fresh",
        ![MobilePath] = IF failed = "" THEN "fresh" ELSE @]

\* ----------------------------------------------------------------- vision
\* the API's answer as its whitespace-separated tokens
IsNumber(tok) == tok \in {"0", "3", "6", "7", "8", "9", "10", "15"}
Atoi(tok) ==
    CASE tok = "0" -> 0 [] tok = "3" -> 3 [] tok = "6" -> 6 [] tok = "7" -> 7
      [] tok = "8" -> 8 [] tok = "9" -> 9 [] tok = "10" -> 10 [] tok = "15" -> 15

AnalysisTexts ==
    { <<"OVERALL:", "8", "/", "10", "ANALYSIS:", "better">>,
      <<"OVERALL:", "7", "/", "10">>,
      <<"OVERALL:", "6", "/", "10", "ANALYSIS:", "worse">>,
      <<"I", "cannot", "compare", "these">>,
      <<"VISUAL_POLISH:", "9", "/", "10", "no", "overall">> }

\* regexp OVERALL:\s*(\d+)\s*/\s*10 : the first position it matches at, 0 if none
OverallAt(toks) ==
    LET hits == {i \in 1..(Len(toks) - 3) :
                    /\ toks[i] = "OVERALL:"
                    /\ IsNumber(toks[i + 1])
                    /\ toks[i + 2] = "/"
                    /\ toks[i + 3] = "10"}
    IN  IF hits = {} THEN 0 ELSE CHOOSE i \in hits : \A j \in hits : i <= j

\* regexp \b([1-9]|10)\b : the first position it matches at, 0 if none
FallbackAt(toks) ==
    LET hits == {i \in 1..Len(toks) :
                    IsNumber(toks[i]) /\ Atoi(toks[i]) \in 1..10}
    IN  IF hits = {} THEN 0 ELSE CHOOSE i \in hits : \A j \in hits : i <= j

\* mutant: without the OVERALL pattern the score is 0
parseScoreFromAnalysis_NoFallback(analysis) ==
    IF OverallAt(analysis) # 0 THEN Atoi(analysis[OverallAt(analysis) + 1]) ELSE 0

parseScoreFromAnalysis(analysis) ==
    IF OverallAt(analysis) # 0 THEN Atoi(analysis[OverallAt(analysis) + 1])
    ELSE IF FallbackAt(analysis) # 0 THEN Atoi(analysis[FallbackAt(analysis)])
    ELSE 0

\* the first precondition or call of CheckVision that fails, "" when none does
VisionFailures ==
    <<"apiKey", "baselineDesktop", "baselineMobile", "newDesktop", "newMobile",
      "encodeDesktop", "encodeMobile", "encodeBaselineDesktop",
      "encodeBaselineMobile", "api">>

VisionError(failed, baselineDir, e) ==
    CASE failed = "apiKey" -> "OPENROUTER_API_KEY not set"
      [] failed = "baselineDesktop" -> "baseline desktop.png not found in " \o baselineDir
      [] failed = "baselineMobile" -> "baseline mobile.png not found in " \o baselineDir
      [] failed = "newDesktop" -> "new desktop.png not found (run screenshots check first)"
      [] failed = "newMobile" -> "new mobile.png not found (run screenshots check first)"
      [] failed = "encodeDesktop" -> "failed to encode desktop screenshot: " \o e
      [] failed = "encodeMobile" -> "failed to encode mobile screenshot: " \o e
      [] failed = "encodeBaselineDesktop" -> "failed to encode baseline desktop: " \o e
      [] failed = "encodeBaselineMobile" -> "failed to encode baseline mobile: " \o e
      [] failed = "api" -> "vision API call failed: " \o e

\* mutant: a score equal to the threshold fails too
ScoreBelow_Inclusive(score, threshold) == score <= threshold

\* the comparison of the parsed score with --threshold
ScoreBelow(score, threshold) == score < threshold

\* failed: the failing step ("" for none), e: its error, analysis: the API's
\* answer.  Yields result and error.
CheckVision(baselineDir, threshold, failed, e, analysis) ==
    LET result == [ZeroVision EXCEPT !.Status = "PASS", !.Threshold = threshold]
    IN  IF failed # "" THEN
            [result |-> result, err |-> VisionError(failed, baselineDir, e)]
        ELSE LET score == parseScoreFromAnalysis(analysis)
             IN  [result |-> [result EXCEPT
                                 !.Score = score,
                                 !.Analysis = analysis,
                                 !.Status = IF ScoreBelow(score, threshold)
                                            THEN "FAIL" ELSE "PASS"],
                  err |-> ""]

\* ------------------------------------------------------------------- main
ThresholdChoices == {DefaultThreshold, DefaultThreshold + 1}
LighthouseChoices ==
    { [Performance |-> DefaultLighthouse, Accessibility |-> DefaultLighthouse,
       SEO |-> DefaultLighthouse],
      [Performance |-> DefaultLighthouse - 10, Accessibility |-> DefaultLighthouse,
       SEO |-> DefaultLighthouse + 5] }

ZeroArgs == [dir |-> "", baseline |-> "", threshold |-> 0, lighthouse |-> ZeroThresholds]
AbsDir == "/work/dist"

\* the gate after CheckAssets
AfterAssets(result) == IF result.Status = "FAIL" THEN "abort_summary" ELSE "build"

\* mutant: a failed Build does not stop the run
AfterBuild_NoHalt(result) == "lighthouse"

\* mutant: a failed Build is tried again
AfterBuild_Retry(result) == IF result.Status = "FAIL" THEN "build" ELSE "lighthouse"

\* the gate after CheckBuild
AfterBuild(result) == IF result.Status = "FAIL" THEN "abort_summary" ELSE "lighthouse"

\* what main stores in r.Checks.Lighthouse for CheckLighthouse's return
LighthouseRecorded(res) ==
    IF res.err # "" THEN [res.result EXCEPT !.Status = "SKIP", !.Details = res.err]
    ELSE res.result

\* mutant: a Lighthouse FAIL does not stop the run
AfterLighthouse_NoHalt(res) == "screenshots"

\* the gate after CheckLighthouse
AfterLighthouse(res) ==
    IF res.err # "" THEN "screenshots"
    ELSE IF res.result.Status = "FAIL" THEN "abort_summary"
    ELSE "screenshots"

\* what main stores in r.Checks.Screenshots for CaptureScreenshots' return
ScreenshotsRecorded(res) ==
    IF res.err # "" THEN [res.result EXCEPT !.Status = "SKIP", !.Details = res.err]
    ELSE res.result

\* no gate after CaptureScreenshots
AfterScreenshots(res) == "vision"

\* what main stores in r.Checks.Vision for CheckVision's return
VisionRecorded(res) ==
    IF res.err # "" THEN [res.result EXCEPT !.Status = "SKIP"]
    ELSE res.result

\* the gate after CheckVision
AfterVision(res) ==
    IF res.err # "" THEN "passed"
    ELSE IF res.result.Status = "FAIL" THEN "abort_summary"
    ELSE "passed"

\* mutant: the default result is left in place
NoBaselineVision_Bare(threshold) == [ZeroVision EXCEPT !.Status = "SKIP"]

\* the Vision result when no baseline was given
NoBaselineVision(threshold) ==
    [ZeroVision EXCEPT !.Status = "SKIP", !.Details = "No baseline provided",
                       !.Threshold = threshold]

\* printSummary's effect on the report
\* mutant: rendering the summary marks the checks that were skipped
printSummary_MarksSkipped(rep) ==
    [rep EXCEPT !.Overall = "FAIL",
                !.Screenshots.Details = IF rep.Screenshots.Status = "SKIP"
                                        THEN "skipped" ELSE rep.Screenshots.Details]

printSummary(rep) == [rep EXCEPT !.Overall = "FAIL"]

\* writeReport's effect on the report
writeReport(rep) == [rep EXCEPT !.Timestamp = "now"]

\* mutant: an abort path exits without writing the report
AfterSummary_SkipWrite(at) == IF at = "abort_summary" THEN "abort_exit" ELSE "done_write"

\* where main goes after printSummary: every path calls writeReport next
AfterSummary(at) == IF at = "abort_summary" THEN "abort_write" ELSE "done_write"

\* where main goes after writeReport: every path calls os.Exit next
AfterWrite(at) == IF at = "abort_write" THEN "abort_exit" ELSE "done_exit"

NoHistory ==
    [walk |-> "", lighthouse |-> "", screenshots |-> "", captureStep |-> "",
     vision |-> "", visionStep |-> ""]

\* what findHTMLFiles gave CheckAssets
WalkOutcome(walkErr, docs) ==
    IF walkErr # "" THEN "error" ELSE IF Len(docs) = 0 THEN "none" ELSE "found"

\* the status main gives os.Exit at each of its exits
ExitStatus(at) == IF at = "done_exit" THEN 0 ELSE 1

Init ==
    /\ pc = "start"
    /\ created = FALSE
    /\ r = ZeroReport
    /\ args = ZeroArgs
    /\ err = ""
    /\ apiKey \in BOOLEAN
    /\ fs \in [{DesktopPath, MobilePath} -> {"absent", "stale"}]
    /\ pages = 0
    /\ servers = 0
    /\ started = <<>>
    /\ printed = <<>>
    /\ serialized = <<>>
    /\ disk = <<>>
    /\ hist = NoHistory
    /\ exitCode = -1
    /\ fn = ""
    /\ arg = <<>>
    /\ out = <<>>
    /\ done = FALSE

\* flag.Parse, the --dir test, filepath.Abs, report.NewReport
Start ==
    /\ pc = "start"
    /\ \E dir \in {"", "./dist"}, absErr \in BOOLEAN, baseline \in {"", "./baseline"},
          threshold \in ThresholdChoices, lh \in LighthouseChoices :
          /\ args' = [dir |-> dir, baseline |-> baseline, threshold |-> threshold,
                      lighthouse |-> lh]
          /\ IF dir = "" \/ absErr
             THEN /\ pc' = "exited"
                  /\ exitCode' = 1
                  /\ UNCHANGED <<created, r>>
             ELSE /\ pc' = "assets"
                  /\ created' = TRUE
                  /\ r' = NewReport(AbsDir)
                  /\ UNCHANGED exitCode
    /\ UNCHANGED <<err, apiKey, fs, pages, servers, started, printed, serialized, disk, hist>>
    /\ UNCHANGED fvars

\* Check 1: ASSETS
RunAssets ==
    /\ pc = "assets"
    /\ \E walkErr \in {""} \cup OsErrors, docs \in SeqsUpTo(Docs, MaxDocs),
          present \in SUBSET Refs :
          LET result == CheckAssets(walkErr, docs, present)
          IN  /\ r' = [r EXCEPT !.Assets = result]
              /\ pages' = IF walkErr # "" THEN 0 ELSE Len(docs)
              /\ hist' = [hist EXCEPT !.walk = WalkOutcome(walkErr, docs)]
              /\ pc' = AfterAssets(result)
    /\ started' = Append(started, "ASSETS")
    /\ UNCHANGED <<created, args, err, apiKey, fs, servers, printed, serialized, disk,
                   exitCode>>
    /\ UNCHANGED fvars

\* Check 2: BUILD
RunBuild ==
    /\ pc = "build"
    /\ \E index \in {"absent", "ok"} \cup OsErrors, parseErr \in {"", "unexpected EOF"},
          has \in SUBSET {Requirements[i] : i \in 1..Len(Requirements)} :
          LET result == CheckBuild(index, parseErr, has, pages)
          IN  /\ r' = [r EXCEPT !.Build = result]
              /\ pc' = AfterBuild(result)
    /\ started' = Append(started, "BUILD")
    /\ UNCHANGED <<created, args, err, apiKey, fs, pages, servers, printed, serialized,
                   disk, hist, exitCode>>
    /\ UNCHANGED fvars

\* main's statements after CheckLighthouse returns res
ReturnLighthouse(res) ==
    /\ r' = [r EXCEPT !.Lighthouse = LighthouseRecorded(res)]
    /\ err' = res.err
    /\ hist' = [hist EXCEPT !.lighthouse = res.err]
    /\ pc' = AfterLighthouse(res)

\* Check 3: LIGHTHOUSE, up to the start of the local server
\* the open servers once runLighthouse has returned: server.Close() comes
\* before the error is looked at
ServersAfterLighthouse(n, runErr) == n - 1

\* mutant: a failed capture returns without closing the server
ServersAfterCapture_LeakOnFailure(n, failed) == IF failed = "" THEN n - 1 ELSE n

\* the open servers when CaptureScreenshots returns: server.Close() is called
\* on each of its five ways out past the server start
ServersAfterCapture(n, failed) ==
    CASE failed = "desktop" -> n - 1
      [] failed = "writeDesktop" -> n - 1
      [] failed = "mobile" -> n - 1
      [] failed = "writeMobile" -> n - 1
      [] failed = "" -> n - 1

CallLighthouse ==
    /\ pc = "lighthouse"
    /\ started' = Append(started, "LIGHTHOUSE")
    /\ \E available \in BOOLEAN, portErr \in {"", "address already in use"} :
          IF ~available \/ portErr # ""
          THEN /\ ReturnLighthouse(CheckLighthouse(available, portErr, "", NoScores,
                                                   args.lighthouse))
               /\ UNCHANGED servers
          ELSE /\ servers' = servers + 1
               /\ pc' = "lighthouse_serving"
               /\ UNCHANGED <<r, err, hist>>
    /\ UNCHANGED <<created, args, apiKey, fs, pages, printed, serialized, disk, exitCode>>
    /\ UNCHANGED fvars

\* Check 3: LIGHTHOUSE, from runLighthouse to the return
FinishLighthouse ==
    /\ pc = "lighthouse_serving"
    /\ \E runErr \in {""} \cup RunErrors, scores \in Scores :
          /\ servers' = ServersAfterLighthouse(servers, runErr)
          /\ ReturnLighthouse(CheckLighthouse(TRUE, "", runErr, scores, args.lighthouse))
    /\ UNCHANGED <<created, args, apiKey, fs, pages, started, printed, serialized, disk,
                   exitCode>>
    /\ UNCHANGED fvars

\* main's statements after CaptureScreenshots returns res, having failed at step
ReturnScreenshots(res, step) ==
    /\ r' = [r EXCEPT !.Screenshots = ScreenshotsRecorded(res)]
    /\ err' = res.err
    /\ hist' = [hist EXCEPT !.screenshots = res.err, !.captureStep = step]
    /\ pc' = AfterScreenshots(res)

\* Check 4: SCREENSHOTS, up to the start of the local server
CallScreenshots ==
    /\ pc = "screenshots"
    /\ started' = Append(started, "SCREENSHOTS")
    /\ \E failed \in {"", "mkdir", "port"}, e \in OsErrors :
          IF failed # ""
          THEN /\ ReturnScreenshots(CaptureScreenshots(failed, e), failed)
               /\ UNCHANGED servers
          ELSE /\ servers' = servers + 1
               /\ pc' = "screenshots_serving"
               /\ UNCHANGED <<r, err, hist>>
    /\ UNCHANGED <<created, args, apiKey, fs, pages, printed, serialized, disk, exitCode>>
    /\ UNCHANGED fvars

\* Check 4: SCREENSHOTS, the two captures and the return
FinishScreenshots ==
    /\ pc = "screenshots_serving"
    /\ \E failed \in {"", "desktop", "writeDesktop", "mobile", "writeMobile"},
          e \in CaptureErrors :
          /\ servers' = ServersAfterCapture(servers, failed)
          /\ ReturnScreenshots(CaptureScreenshots(failed, e), failed)
          /\ fs' = FilesAfterCapture(fs, failed)
    /\ UNCHANGED <<created, args, apiKey, pages, started, printed, serialized, disk,
                   exitCode>>
    /\ UNCHANGED fvars

\* the first step of CheckVision that fails in this environment, "" if none
FirstVisionFailure(key, baselineDesktop, baselineMobile, files, encode, api) ==
    IF ~key THEN "apiKey"
    ELSE IF ~baselineDesktop THEN "baselineDesktop"
    ELSE IF ~baselineMobile THEN "baselineMobile"
    ELSE IF files[DesktopPath] = "absent" THEN "newDesktop"
    ELSE IF files[MobilePath] = "absent" THEN "newMobile"
    ELSE IF encode # "" THEN encode
    ELSE IF api THEN "api"
    ELSE ""

\* Check 5: VISION, with a baseline
RunVision ==
    /\ pc = "vision"
    /\ args.baseline # ""
    /\ started' = Append(started, "VISION")
    /\ \E baselineDesktop \in BOOLEAN, baselineMobile \in BOOLEAN,
          encode \in {"", "encodeDesktop", "encodeMobile", "encodeBaselineDesktop",
                      "encodeBaselineMobile"},
          api \in BOOLEAN, analysis \in AnalysisTexts :
          LET failed == FirstVisionFailure(apiKey, baselineDesktop, baselineMobile, fs,
                                           encode, api)
              e == IF failed = "api" THEN "API returned status 500" ELSE "permission denied"
              res == CheckVision(args.baseline, args.threshold, failed, e, analysis)
          IN  /\ r' = [r EXCEPT !.Vision = VisionRecorded(res)]
              /\ err' = res.err
              /\ hist' = [hist EXCEPT !.vision = res.err, !.visionStep = failed]
              /\ pc' = AfterVision(res)
    /\ UNCHANGED <<created, args, apiKey, fs, pages, servers, printed, serialized, disk,
                   exitCode>>
    /\ UNCHANGED fvars

\* Check 5: VISION, without a baseline
SkipVision ==
    /\ pc = "vision"
    /\ args.baseline = ""
    /\ r' = [r EXCEPT !.Vision = NoBaselineVision(args.threshold)]
    /\ pc' = "passed"
    /\ UNCHANGED <<created, args, err, apiKey, fs, pages, servers, started, printed,
                   serialized, disk, hist, exitCode>>
    /\ UNCHANGED fvars

\* "All checks passed": r.Overall = "PASS"
MarkPassed ==
    /\ pc = "passed"
    /\ r' = [r EXCEPT !.Overall = "PASS"]
    /\ pc' = "done_summary"
    /\ UNCHANGED <<created, args, err, apiKey, fs, pages, servers, started, printed,
                   serialized, disk, hist, exitCode>>
    /\ UNCHANGED fvars

\* printSummary(r), on the abort paths and on the success path
PrintSummary ==
    /\ pc \in {"abort_summary", "done_summary"}
    /\ r' = printSummary(r)
    /\ printed' = Append(printed, r'.Overall)
    /\ pc' = AfterSummary(pc)
    /\ UNCHANGED <<created, args, err, apiKey, fs, pages, servers, started, serialized,
                   disk, hist, exitCode>>
    /\ UNCHANGED fvars

\* writeReport(r); os.WriteFile may fail, which is reported and changes nothing else
WriteReport ==
    /\ pc \in {"abort_write", "done_write"}
    /\ r' = writeReport(r)
    /\ serialized' = Append(serialized, r')
    /\ \E written \in BOOLEAN : disk' = IF written THEN <<r'>> ELSE disk
    /\ pc' = AfterWrite(pc)
    /\ UNCHANGED <<created, args, err, apiKey, fs, pages, servers, started, printed,
                   hist, exitCode>>
    /\ UNCHANGED fvars

\* os.Exit
Exit ==
    /\ pc \in {"abort_exit", "done_exit"}
    /\ exitCode' = ExitStatus(pc)
    /\ pc' = "exited"
    /\ UNCHANGED <<created, r, args, err, apiKey, fs, pages, servers, started, printed,
                   serialized, disk, hist>>
    /\ UNCHANGED fvars

Next ==
    \/ Start
    \/ RunAssets
    \/ RunBuild
    \/ CallLighthouse
    \/ FinishLighthouse
    \/ CallScreenshots
    \/ FinishScreenshots
    \/ RunVision
    \/ SkipVision
    \/ MarkPassed
    \/ PrintSummary
    \/ WriteReport
    \/ Exit

Spec == Init /\ [][Next]_vars

\* ------------------------------------------- one function applied on its own
\* the references of the documents given to CheckAssets on its own, and the
\* files that may exist under DistDir
PathRefs == { <<"/", "images", "/", "x">>, <<".", "/", "x">>, <<"x">> }
SiteFiles == { DistDir \o <<"/", "images", "/", "x">>, DistDir \o <<"/", "x">> }
PathDocs == [readErr : {""} \cup OsErrors, refs : SeqsUpTo(PathRefs, MaxRefs)]

\* a site: the walk fails, or it finds docs in a tree holding files
Sites ==
    [walkErr : OsErrors, docs : {<<>>}, files : {{}}]
        \cup [walkErr : {""}, docs : SeqsUpTo(PathDocs, MaxDocs), files : SUBSET SiteFiles]

\* the root document given to CheckBuild on its own
RootDocs ==
    [index : {"absent", "ok"} \cup OsErrors, parseErr : {"", "unexpected EOF"},
     has : SUBSET {Requirements[i] : i \in 1..Len(Requirements)}, nPages : 0..MaxDocs]

\* the API answers given to CheckVision on its own, with the thresholds
AnswerToks == {"OVERALL:", "/", "10", "9", "0", "15", "good"}
Answers == [threshold : {1, DefaultThreshold, 10}, analysis : SeqsUpTo(AnswerToks, MaxToks)]

\* main has not started
Idle ==
    /\ pc = "start"
    /\ created = FALSE
    /\ r = ZeroReport
    /\ args = ZeroArgs
    /\ err = ""
    /\ apiKey = FALSE
    /\ fs = [f \in {DesktopPath, MobilePath} |-> "absent"]
    /\ pages = 0
    /\ servers = 0
    /\ started = <<>>
    /\ printed = <<>>
    /\ serialized = <<>>
    /\ disk = <<>>
    /\ hist = NoHistory
    /\ exitCode = -1

InitFn ==
    /\ Idle
    /\ out = <<>>
    /\ done = FALSE
    /\ \/ fn = "CheckAssets" /\ arg \in Sites
       \/ fn = "srcset" /\ arg \in SrcsetValues
       \/ fn = "CheckVision" /\ arg \in Answers
       \/ fn = "findHTMLFiles" /\ arg \in Trees
       \/ fn = "extractAssets" /\ arg \in Documents
       \/ fn = "assetPath" /\ arg \in References
       \/ fn = "CheckBuild" /\ arg \in RootDocs

ApplyCheckAssets ==
    /\ fn = "CheckAssets"
    /\ ~done
    /\ out' = CheckAssets(arg.walkErr, arg.docs,
                          { a \in PathRefs : Stat(arg.files, assetPath(DistDir, a)) })
    /\ done' = TRUE
    /\ UNCHANGED <<fn, arg, pvars>>

ApplyAssetPath ==
    /\ fn = "assetPath"
    /\ ~done
    /\ out' = assetPath(DistDir, arg)
    /\ done' = TRUE
    /\ UNCHANGED <<fn, arg, pvars>>

ApplyCheckBuild ==
    /\ fn = "CheckBuild"
    /\ ~done
    /\ out' = CheckBuild(arg.index, arg.parseErr, arg.has, arg.nPages)
    /\ done' = TRUE
    /\ UNCHANGED <<fn, arg, pvars>>

ApplyCheckVision ==
    /\ fn = "CheckVision"
    /\ ~done
    /\ out' = CheckVision("./baseline", arg.threshold, "", "", arg.analysis)
    /\ done' = TRUE
    /\ UNCHANGED <<fn, arg, pvars>>

ApplySrcset ==
    /\ fn = "srcset"
    /\ ~done
    /\ out' = srcsetSources(arg)
    /\ done' = TRUE
    /\ UNCHANGED <<fn, arg, pvars>>

ApplyExtractAssets ==
    /\ fn = "extractAssets"
    /\ ~done
    /\ out' = extractAssets(arg)
    /\ done' = TRUE
    /\ UNCHANGED <<fn, arg, pvars>>

ApplyFindHTMLFiles ==
    /\ fn = "findHTMLFiles"
    /\ ~done
    /\ out' = findHTMLFiles(arg, <<>>)
    /\ done' = TRUE
    /\ UNCHANGED <<fn, arg, pvars>>

NextFn ==
    \/ ApplyCheckVision
    \/ ApplyCheckAssets
    \/ ApplyFindHTMLFiles
    \/ ApplySrcset
    \/ ApplyExtractAssets
    \/ ApplyAssetPath
    \/ ApplyCheckBuild

SpecFn == InitFn /\ [][NextFn]_vars

\* ================================================================= claims
Exited == pc = "exited"
Has(check) == \E i \in 1..Len(started) : started[i] = check
AbortPcs == {"abort_summary", "abort_write", "abort_exit"}
DonePcs == {"passed", "done_summary", "done_write", "done_exit"}

\* the run is past the VISION stage of main
PastVision ==
    /\ Len(started) >= 4
    /\ pc \notin {"screenshots", "screenshots_serving", "vision"}

\* C1: the serialized report's overall verdict is PASS exactly when Assets and
\* Build are PASS, Lighthouse is PASS or SKIP and Vision is not FAIL.
C1_SerializedOverall ==
    \A i \in 1..Len(serialized) :
        LET rep == serialized[i]
        IN  (rep.Overall = "PASS") <=>
                /\ rep.Assets.Status = "PASS"
                /\ rep.Build.Status = "PASS"
                /\ rep.Lighthouse.Status \in {"PASS", "SKIP"}
                /\ rep.Vision.Status # "FAIL"

\* (supporting C1) what the code does instead: every verdict it prints or
\* serializes is FAIL, on the success path too.
OverallAlwaysFail ==
    /\ \A i \in 1..Len(serialized) : serialized[i].Overall = "FAIL"
    /\ \A i \in 1..Len(printed) : printed[i] = "FAIL"

\* C2: the exit code is 0 exactly when Assets and Build are PASS, Lighthouse
\* is PASS or SKIP and Vision is PASS or SKIP, and 1 otherwise; the Screenshots
\* status takes no part in it.
C2_ExitCode ==
    Exited =>
        /\ exitCode \in {0, 1}
        /\ (exitCode = 0) <=>
               /\ r.Assets.Status = "PASS"
               /\ r.Build.Status = "PASS"
               /\ r.Lighthouse.Status \in {"PASS", "SKIP"}
               /\ r.Vision.Status \in {"PASS", "SKIP"}

C2_Witness ==
    /\ Exited
    /\ exitCode = 0
    /\ r.Screenshots.Status = "SKIP"
    /\ r.Lighthouse.Status = "PASS"

\* C3: once CheckAssets has returned FAIL no other check is ever started, once
\* CheckBuild has returned FAIL none after it is; the run then serializes the
\* partial report and exits with status 1.
C3_HardGates ==
    /\ (Has("ASSETS") /\ r.Assets.Status = "FAIL") =>
           /\ started = <<"ASSETS">>
           /\ pc \in AbortPcs \cup {"exited"}
    /\ (Has("BUILD") /\ r.Build.Status = "FAIL") =>
           /\ started = <<"ASSETS", "BUILD">>
           /\ pc \in AbortPcs \cup {"exited"}
    /\ (Exited /\ created /\ "FAIL" \in {r.Assets.Status, r.Build.Status}) =>
           /\ exitCode = 1
           /\ Len(serialized) = 1
           /\ serialized[1].Assets = r.Assets
           /\ serialized[1].Build = r.Build

C3_Witness ==
    /\ Exited
    /\ started = <<"ASSETS", "BUILD">>
    /\ r.Build.Status = "FAIL"
    /\ exitCode = 1
    /\ Len(serialized) = 1

\* the position of main from which each check is called
CallPc == <<"assets", "build", "lighthouse", "screenshots", "vision">>

\* C4: a check is started only from its own position in main, when exactly
\* the checks before it have been started and have returned (no server of an
\* earlier check is open), so the checks start in the fixed order, each at
\* most once, and none starts after the run has halted.
C4_Order ==
    [][started' # started =>
          \E i \in 1..Len(Checks) :
              /\ pc = CallPc[i]
              /\ Len(started) = i - 1
              /\ started' = Append(started, Checks[i])
              /\ servers = 0]_vars

C4_Witness ==
    /\ Exited
    /\ started = Checks

\* C5: in a run that created the Report, writeReport serializes it exactly once,
\* after the last check recorded its result and before os.Exit; a run that
\* never created the Report serializes nothing.
C5_SerializedOnce ==
    /\ Len(serialized) <= 1
    /\ Len(disk) <= 1
    /\ ~created => serialized = <<>> /\ disk = <<>>
    /\ (Exited /\ created) => Len(serialized) = 1
    /\ Len(serialized) = 1 =>
           /\ pc \in {"abort_exit", "done_exit", "exited"}
           /\ serialized[1] = r
           /\ disk \in {<<>>, serialized}
    /\ (pc \in {"abort_exit", "done_exit"}) => Len(serialized) = 1

C5_Witness ==
    /\ Exited
    /\ Len(serialized) = 1
    /\ started = <<"ASSETS">>
    /\ disk = serialized

\* C6: when Lighthouse is not installed its result is SKIP with the reason in
\* Details, Screenshots is still called, and a run that then ends with exit
\* code 0 serializes overall PASS.
C6_LighthouseUnavailable ==
    hist.lighthouse = NotInstalled =>
        /\ r.Lighthouse.Status = "SKIP"
        /\ r.Lighthouse.Details = NotInstalled
        /\ pc \notin AbortPcs \/ Has("VISION")
        /\ pc # "screenshots" => Has("SCREENSHOTS")
        /\ (Exited /\ exitCode = 0) => serialized[1].Overall = "PASS"

\* (supporting C6) everything of C6 but the serialized verdict holds.
C6_DegradesToSkip ==
    hist.lighthouse = NotInstalled =>
        /\ r.Lighthouse.Status = "SKIP"
        /\ r.Lighthouse.Details = NotInstalled
        /\ pc \notin AbortPcs \/ Has("VISION")
        /\ pc # "screenshots" => Has("SCREENSHOTS")
        /\ Exited => exitCode \in {0, 1}

C6_Reached ==
    /\ hist.lighthouse = NotInstalled
    /\ Exited
    /\ exitCode = 0

\* Lighthouse ran and returned scores
LighthouseScored ==
    /\ Has("LIGHTHOUSE")
    /\ pc \notin {"lighthouse", "lighthouse_serving"}
    /\ hist.lighthouse = ""

\* C7: when Lighthouse returned scores its result is FAIL exactly when a score
\* is strictly below its own threshold; a FAIL halts the run: Screenshots and
\* Vision never start, the report is serialized and the exit code is 1.
C7_LighthouseThresholds ==
    LighthouseScored =>
        /\ r.Lighthouse.Thresholds = args.lighthouse
        /\ r.Lighthouse.Status \in {"PASS", "FAIL"}
        /\ (r.Lighthouse.Status = "FAIL") <=>
               \/ r.Lighthouse.Performance < args.lighthouse.Performance
               \/ r.Lighthouse.Accessibility < args.lighthouse.Accessibility
               \/ r.Lighthouse.SEO < args.lighthouse.SEO
        /\ r.Lighthouse.Status = "FAIL" =>
               /\ started = <<"ASSETS", "BUILD", "LIGHTHOUSE">>
               /\ pc \in AbortPcs \cup {"exited"}
               /\ Exited => /\ exitCode = 1
                            /\ Len(serialized) = 1
                            /\ serialized[1].Lighthouse = r.Lighthouse
        /\ r.Lighthouse.Status = "PASS" => pc \notin AbortPcs \/ Has("VISION")

C7_Witness ==
    /\ LighthouseScored
    /\ Exited
    /\ r.Lighthouse.Status = "FAIL"
    /\ r.Lighthouse.Performance >= args.lighthouse.Performance
    /\ r.Lighthouse.Accessibility = args.lighthouse.Accessibility
    /\ r.Lighthouse.SEO < args.lighthouse.SEO
    /\ r.Lighthouse.SEO >= args.lighthouse.Performance

\* C8: when a capture or the write of a capture fails, the Screenshots result
\* of the report is FAIL, not SKIP, and the run goes on to the VISION stage.
C8_CaptureFailureRecorded ==
    hist.captureStep \in {"desktop", "writeDesktop", "mobile", "writeMobile"} =>
        /\ r.Screenshots.Status = "FAIL"
        /\ pc \notin AbortPcs \/ Has("VISION")

\* (supporting C8) what the code does instead: every error of
\* CaptureScreenshots is recorded as SKIP with the error text as Details.
C8_EveryErrorIsSkip ==
    hist.screenshots # "" =>
        /\ r.Screenshots.Status = "SKIP"
        /\ r.Screenshots.Details = hist.screenshots
        /\ pc \notin AbortPcs \/ Has("VISION")

\* C9: without a baseline CheckVision is never called, the Vision result is
\* SKIP with Details "No baseline provided" and the configured threshold,
\* whether or not the API key is set, and the run ends with all checks passed.
C9_NoBaseline ==
    (args.baseline = "" /\ PastVision) =>
        /\ ~Has("VISION")
        /\ r.Vision.Status = "SKIP"
        /\ r.Vision.Details = "No baseline provided"
        /\ r.Vision.Threshold = args.threshold
        /\ r.Vision.Score = 0
        /\ pc \in DonePcs \cup {"exited"}
        /\ Exited => exitCode = 0

C9_Witness ==
    /\ args.baseline = ""
    /\ PastVision
    /\ Exited
    /\ apiKey
    /\ fs[DesktopPath] = "fresh"

\* C10: when CheckVision returns an error the Vision result is SKIP with the
\* error recorded in it, and the run ends with all checks passed.
C10_VisionErrorRecorded ==
    hist.vision # "" =>
        /\ r.Vision.Status = "SKIP"
        /\ r.Vision.Details = hist.vision
        /\ pc \in DonePcs \cup {"exited"}
        /\ Exited => exitCode = 0

\* (supporting C10) what the code does instead: the status is SKIP and the run
\* goes on, but no field of the Vision result holds the error.
C10_VisionErrorDropped ==
    hist.vision # "" =>
        /\ r.Vision = [ZeroVision EXCEPT !.Status = "SKIP", !.Threshold = args.threshold]
        /\ pc \in DonePcs \cup {"exited"}
        /\ Exited => exitCode = 0

\* the API answered and CheckVision compared the score it parsed
VisionCompared == Has("VISION") /\ pc # "vision" /\ hist.vision = ""

\* C11: when the Vision comparison completes, the result is FAIL exactly when
\* the score parsed from the analysis is strictly below the threshold (an equal
\* score is PASS); FAIL stops the run, which writes the report and exits 1;
\* PASS lets the run go to its successful end.
C11_VisionThreshold ==
    VisionCompared =>
        /\ r.Vision.Score = parseScoreFromAnalysis(r.Vision.Analysis)
        /\ r.Vision.Threshold = args.threshold
        /\ r.Vision.Status \in {"PASS", "FAIL"}
        /\ (r.Vision.Status = "FAIL") <=> (r.Vision.Score < args.threshold)
        /\ r.Vision.Status = "FAIL" =>
               /\ pc \in AbortPcs \cup {"exited"}
               /\ Exited => (exitCode = 1 /\ Len(serialized) = 1
                             /\ serialized[1].Vision = r.Vision)
        /\ r.Vision.Status = "PASS" =>
               /\ pc \in DonePcs \cup {"exited"}
               /\ Exited => exitCode = 0

\* a score equal to the threshold passed and the run ended well
C11_Witness ==
    /\ VisionCompared
    /\ r.Vision.Score = args.threshold
    /\ r.Vision.Status = "PASS"
    /\ Exited
    /\ exitCode = 0

\* CheckAssets was applied to a site and has returned
AssetsChecked == fn = "CheckAssets" /\ done

\* every document of the site is read and parsed
AllRead(docs) == \A i \in 1..Len(docs) : docs[i].readErr = ""

\* the references of the documents, in the order of discovery
RECURSIVE Declared(_)
Declared(docs) == IF docs = <<>> THEN <<>> ELSE Head(docs).refs \o Declared(Tail(docs))

\* the reference's candidate is not a file of the site
Absent(files, a) == ~Stat(files, assetPath(DistDir, a))

\* C12 (as stated): CheckAssets returns PASS exactly when the number of
\* references found is not zero and the missing list is empty; a site whose
\* documents declare no reference gets FAIL.
C12_PassNeedsReferences ==
    AssetsChecked =>
        /\ out.Status \in {"PASS", "FAIL"}
        /\ (out.Status = "PASS") <=> (out.Total # 0 /\ out.Missing = <<>>)

\* C12 (amended): CheckAssets returns PASS exactly when the walk succeeds and
\* finds a document, every document is read and parsed, and no reference is
\* missing; the number of references may be zero, the result is then PASS
\* with Total 0.
C12_PassIffNothingMissing ==
    AssetsChecked =>
        /\ out.Status \in {"PASS", "FAIL"}
        /\ (out.Status = "PASS") <=>
               /\ arg.walkErr = ""
               /\ Len(arg.docs) > 0
               /\ AllRead(arg.docs)
               /\ \A i \in 1..Len(arg.docs) : \A k \in 1..Len(arg.docs[i].refs) :
                      ~Absent(arg.files, arg.docs[i].refs[k])
        /\ out.Status = "PASS" => out.Missing = <<>>
        /\ (Len(arg.docs) > 0 /\ AllRead(arg.docs) /\ Declared(arg.docs) = <<>>) =>
               (out.Status = "PASS" /\ out.Total = 0)

\* documents were found and read, none declares a reference: PASS with Total 0
C12_Witness ==
    /\ AssetsChecked
    /\ Len(arg.docs) = MaxDocs
    /\ AllRead(arg.docs)
    /\ Declared(arg.docs) = <<>>
    /\ out.Status = "PASS"
    /\ out.Total = 0

\* C13: for documents that are all read and together declare N references of
\* which M have no file (each occurrence counted), Total is N, Missing holds
\* the M references as written in the documents, in the order of discovery
\* with repetitions, and the status is FAIL when M > 0.
C13_TotalAndMissing ==
    (AssetsChecked /\ arg.walkErr = "" /\ Len(arg.docs) > 0 /\ AllRead(arg.docs)) =>
        LET declared == Declared(arg.docs)
            at == { k \in 1..Len(declared) : Absent(arg.files, declared[k]) }
        IN  /\ out.Total = Len(declared)
            /\ Len(out.Missing) = Cardinality(at)
            /\ \A j \in 1..Len(out.Missing) :
                   \E k \in at : /\ out.Missing[j] = declared[k]
                                  /\ Cardinality({ h \in at : h < k }) = j - 1
            /\ at # {} => out.Status = "FAIL"

\* two documents declare the same missing reference and Missing holds it twice
C13_Witness ==
    /\ AssetsChecked
    /\ out.Total = 2
    /\ out.Missing = << <<"x">>, <<"x">> >>
    /\ out.Status = "FAIL"

\* C14: when the walk finds no HTML document the Assets result is FAIL with
\* Total 0 and a detail saying that no HTML file was found, and the run stops
\* there: Build is never started.
C14_NoDocuments ==
    hist.walk = "none" =>
        /\ r.Assets = [Status |-> "FAIL", Total |-> 0, Missing |-> <<>>,
                       Details |-> "No HTML files found in dist directory"]
        /\ started = <<"ASSETS">>
        /\ pc \in AbortPcs \cup {"exited"}
        /\ Exited => (exitCode = 1 /\ Len(serialized) = 1
                      /\ serialized[1].Build = [ZeroBuild EXCEPT !.Status = "FAIL"])

C14_Witness ==
    /\ hist.walk = "none"
    /\ Exited
    /\ exitCode = 1
    /\ started = <<"ASSETS">>

\* the resolver was applied to a reference and has returned
Resolved == fn = "assetPath" /\ done

\* the places of a reference where /images/ occurs
ImagesAt(ref) == { k \in 1..Len(ref) : HasPrefix(From(ref, k), ImagesDir) }

\* the candidate is the root followed by the reference from its first /images/
FromFirstImages ==
    \E k \in ImagesAt(arg) :
        /\ \A h \in ImagesAt(arg) : k <= h
        /\ out = DistDir \o From(arg, k)

\* C15 (as stated): for every reference that starts with /images/ or holds
\* /images/ anywhere, the candidate path is the site root followed by the
\* reference from that /images/ on, whatever comes before it.
C15_ImagesAnywhere ==
    (Resolved /\ ImagesAt(arg) # {}) => FromFirstImages

\* C15 (amended): for every reference that starts with "/" and holds
\* /images/, the candidate path is the site root followed by the reference
\* from its first /images/ on, whatever comes before it; a reference that does
\* not start with "/" is joined onto the root whole.
C15_ImagesInRootRelative ==
    /\ (Resolved /\ HasPrefix(arg, <<"/">>) /\ ImagesAt(arg) # {}) => FromFirstImages
    /\ (Resolved /\ ~HasPrefix(arg, <<"/">>) /\ ~HasPrefix(arg, <<".", "/">>)) =>
           out = Clean(DistDir \o <<"/">> \o arg)

\* a root-relative reference with a base path before /images/ was cut
C15_Witness ==
    /\ Resolved
    /\ arg = <<"/", "x", "/", "images", "/">>
    /\ out = DistDir \o ImagesDir

\* C16: for every reference that starts with ./ the resolver drops the one
\* leading dot and path-joins the rest onto the root, so that ./x and the
\* bare relative reference x have the same candidate path.
C16_DotSlash ==
    (Resolved /\ HasPrefix(arg, <<".", "/">>)) =>
        LET x == From(arg, 3)
        IN  /\ out = Clean(DistDir \o <<"/">> \o Tail(arg))
            /\ (~HasPrefix(x, <<"/">>)) => out = assetPath(DistDir, x)

\* ./x/. was resolved, to the candidate of x/.
C16_Witness ==
    /\ Resolved
    /\ arg = <<".", "/", "x", "/", ".">>
    /\ out = DistDir \o <<"/", "x">>

\* CheckBuild was applied to a root document and has returned
BuildChecked == fn = "CheckBuild" /\ done

\* the six requirements in the order the detail lists them
ListedOrder == <<"html", "head", "body", "title", "description", "og:title">>

\* the detail naming the requirements among the first n that has lacks
RECURSIVE Listed(_, _)
Listed(has, n) ==
    IF n = 0 THEN ""
    ELSE LET before == Listed(has, n - 1)
             req == ListedOrder[n]
         IN  IF req \in has THEN before
             ELSE IF before = "" THEN BuildError(req)
             ELSE before \o ", " \o BuildError(req)

\* C17: for a root document that exists and parses, CheckBuild returns PASS
\* exactly when the document meets all six requirements; otherwise FAIL with
\* a detail that names exactly the requirements not met, joined by commas, in
\* the order html, head, body, title, description, og:title.
C17_BuildRequirements ==
    (BuildChecked /\ arg.index = "ok" /\ arg.parseErr = "") =>
        /\ out.Status \in {"PASS", "FAIL"}
        /\ (out.Status = "PASS") <=> (\A i \in 1..6 : ListedOrder[i] \in arg.has)
        /\ out.Status = "FAIL" => out.Details = Listed(arg.has, 6)
        /\ out.Pages = arg.nPages

\* the document has its tags and title but neither of the two meta tags
C17_Witness ==
    /\ BuildChecked
    /\ arg.index = "ok"
    /\ arg.parseErr = ""
    /\ arg.has = {"html", "head", "body", "title"}
    /\ out.Status = "FAIL"
    /\ out.Details = "missing meta description, missing og:title meta tag"

\* the report as read back from the document writeReport produced
ReadBack(rep) == Unmarshal(Marshal(rep))

\* C18: every report serialized at the end of a run, written as JSON with the
\* omit-when-empty rules and parsed again, has the same overall verdict, the
\* same status for each of the five checks and the same numbers (Total,
\* Pages, the three scores and thresholds, the Vision score and threshold).
C18_RoundTrip ==
    \A i \in 1..Len(serialized) :
        LET rep == serialized[i]
            back == ReadBack(rep)
        IN  /\ back.Overall = rep.Overall
            /\ back.Assets.Status = rep.Assets.Status
            /\ back.Build.Status = rep.Build.Status
            /\ back.Lighthouse.Status = rep.Lighthouse.Status
            /\ back.Screenshots.Status = rep.Screenshots.Status
            /\ back.Vision.Status = rep.Vision.Status
            /\ back.Assets.Total = rep.Assets.Total
            /\ back.Build.Pages = rep.Build.Pages
            /\ back.Lighthouse.Performance = rep.Lighthouse.Performance
            /\ back.Lighthouse.Accessibility = rep.Lighthouse.Accessibility
            /\ back.Lighthouse.SEO = rep.Lighthouse.SEO
            /\ back.Lighthouse.Thresholds = rep.Lighthouse.Thresholds
            /\ back.Vision.Score = rep.Vision.Score
            /\ back.Vision.Threshold = rep.Vision.Threshold

\* a run ended whose document holds Lighthouse scores and thresholds but
\* neither a Vision score nor a missing list, both left out as empty
C18_Witness ==
    /\ Exited
    /\ Len(serialized) = 1
    /\ serialized[1].Lighthouse.Performance > 0
    /\ serialized[1].Lighthouse.Thresholds.SEO > 0
    /\ serialized[1].Vision.Score = 0
    /\ "score" \notin DOMAIN Marshal(serialized[1])["checks"]["vision"]
    /\ "missing" \notin DOMAIN Marshal(serialized[1])["checks"]["assets"]
    /\ "thresholds" \in DOMAIN Marshal(serialized[1])["checks"]["lighthouse"]

\* C19: in every serialized report, each check that ran and whose status is
\* not PASS (FAIL or SKIP) has a non-empty cause in its details (for Vision:
\* details or analysis), so that no error a check returned is lost.
C19_CauseRecorded ==
    \A i \in 1..Len(serialized) :
        LET rep == serialized[i]
        IN  /\ (Has("ASSETS") /\ rep.Assets.Status # "PASS") => rep.Assets.Details # ""
            /\ (Has("BUILD") /\ rep.Build.Status # "PASS") => rep.Build.Details # ""
            /\ (Has("LIGHTHOUSE") /\ rep.Lighthouse.Status # "PASS") =>
                   rep.Lighthouse.Details # ""
            /\ (Has("SCREENSHOTS") /\ rep.Screenshots.Status # "PASS") =>
                   rep.Screenshots.Details # ""
            /\ (Has("VISION") /\ rep.Vision.Status # "PASS") =>
                   (rep.Vision.Details # "" \/ rep.Vision.Analysis # <<>>)

\* (supporting C19) the causes the code does record: every result of Assets,
\* Build, Lighthouse and Screenshots that is not PASS, and every Vision
\* result that is not PASS unless CheckVision returned an error.
C19_CauseRecordedButVisionError ==
    \A i \in 1..Len(serialized) :
        LET rep == serialized[i]
        IN  /\ (Has("ASSETS") /\ rep.Assets.Status # "PASS") => rep.Assets.Details # ""
            /\ (Has("BUILD") /\ rep.Build.Status # "PASS") => rep.Build.Details # ""
            /\ (Has("LIGHTHOUSE") /\ rep.Lighthouse.Status # "PASS") =>
                   rep.Lighthouse.Details # ""
            /\ (Has("SCREENSHOTS") /\ rep.Screenshots.Status # "PASS") =>
                   rep.Screenshots.Details # ""
            /\ (Has("VISION") /\ rep.Vision.Status # "PASS" /\ hist.vision = "") =>
                   (rep.Vision.Details # "" \/ rep.Vision.Analysis # <<>>)
            /\ (Has("VISION") /\ hist.vision # "") =>
                   (rep.Vision.Details = "" /\ rep.Vision.Analysis = <<>>)

\* the errors CheckLighthouse returns when the tool ran and failed
LighthouseRunFailures == { "lighthouse failed: " \o e : e \in RunErrors }

\* C20: a tool that was available and ran but failed or gave a result that
\* cannot be parsed (the lighthouse subprocess) makes its check FAIL with the
\* error kept in the details; SKIP is recorded only when the tool is not
\* available.
C20_ToolFailureIsFail ==
    /\ hist.lighthouse \in LighthouseRunFailures =>
           /\ r.Lighthouse.Status = "FAIL"
           /\ r.Lighthouse.Details = hist.lighthouse
    /\ (Has("LIGHTHOUSE") /\ r.Lighthouse.Status = "SKIP") =>
           hist.lighthouse \notin LighthouseRunFailures

\* (supporting C20) what the code does instead: the failed run is recorded as
\* SKIP with the error in the details, and the run goes on to SCREENSHOTS.
C20_ToolFailureIsSkip ==
    hist.lighthouse \in LighthouseRunFailures =>
        /\ r.Lighthouse.Status = "SKIP"
        /\ r.Lighthouse.Details = hist.lighthouse
        /\ Has("SCREENSHOTS") \/ pc = "screenshots"

\* the run was stopped by a failed check
Aborted == pc \in AbortPcs \/ (Exited /\ created /\ exitCode = 1)

\* C21: before any check runs the report holds overall FAIL, status FAIL for
\* Assets, Build, Lighthouse and Screenshots and status SKIP for Vision; so in
\* a report serialized after an abort every check that did not run still has
\* that status.
C21_Defaults ==
    /\ (created /\ started = <<>>) =>
           /\ r.Overall = "FAIL"
           /\ r.Assets.Status = "FAIL"
           /\ r.Build.Status = "FAIL"
           /\ r.Lighthouse.Status = "FAIL"
           /\ r.Screenshots.Status = "FAIL"
           /\ r.Vision.Status = "SKIP"
    /\ Aborted =>
           \A i \in 1..Len(serialized) :
               /\ ~Has("BUILD") => serialized[i].Build.Status = "FAIL"
               /\ ~Has("LIGHTHOUSE") => serialized[i].Lighthouse.Status = "FAIL"
               /\ ~Has("SCREENSHOTS") => serialized[i].Screenshots.Status = "FAIL"
               /\ ~Has("VISION") => serialized[i].Vision.Status = "SKIP"

\* Build failed; the report of the stopped run was serialized with the three
\* later checks never started
C21_Witness ==
    /\ Exited
    /\ started = <<"ASSETS", "BUILD">>
    /\ exitCode = 1
    /\ Len(serialized) = 1
    /\ serialized[1].Assets.Status = "PASS"
    /\ serialized[1].Lighthouse = [ZeroLighthouse EXCEPT !.Status = "FAIL"]
    /\ serialized[1].Vision = [ZeroVision EXCEPT !.Status = "SKIP"]

\* the srcset value was split into references
SrcsetSplit == fn = "srcset" /\ done

\* the first white-space-delimited token of a srcset candidate
RECURSIVE UpToWhitespace(_)
UpToWhitespace(s) ==
    IF s = <<>> \/ Head(s) \in Whitespace THEN <<>>
    ELSE <<Head(s)>> \o UpToWhitespace(Tail(s))

RECURSIVE SkipWhitespace(_)
SkipWhitespace(s) ==
    IF s # <<>> /\ Head(s) \in Whitespace THEN SkipWhitespace(Tail(s)) ELSE s

CandidateURL(candidate) == UpToWhitespace(SkipWhitespace(candidate))

\* the URLs of the comma-separated candidates of a srcset value
CandidateURLs(val) ==
    LET candidates == Split(val, ",")
    IN  SelectSeq([i \in 1..Len(candidates) |-> CandidateURL(candidates[i])],
                  LAMBDA u : u # <<>>)

\* C22: from a srcset value the extractor yields, for each comma-separated
\* candidate with a non-empty URL, that URL (the candidate's first
\* white-space-delimited token, the descriptor dropped), also when a comma is
\* followed by white space: "a 1x, b 2x" yields a and b.
C22_SrcsetCandidates ==
    SrcsetSplit => out = CandidateURLs(arg)

\* (supporting C22) what the code does: a candidate that starts with a space
\* yields nothing, and only the space ends a URL
C22_LeadingSpaceDropsCandidate ==
    SrcsetSplit =>
        LET parts == Split(arg, ",")
        IN  /\ Len(out) <= Len(parts)
            /\ (\A i \in 1..Len(parts) : parts[i] # <<>> /\ parts[i][1] = " ") =>
                   out = <<>>
            /\ (\A k \in 1..Len(arg) : arg[k] \notin Whitespace) =>
                   out = CandidateURLs(arg)

\* extractAssets was applied to a document and has returned
Extracted == fn = "extractAssets" /\ done

\* the element has a rel attribute equal to stylesheet, icon or shortcut
HasStyleRel(n) ==
    \E k \in 1..Len(n.Attr) : n.Attr[k].Key = "rel" /\ n.Attr[k].Val \in StyleRels

\* the references one attribute stands for
Qualifying(n, attr) ==
    IF attr.Val = <<>> THEN <<>>
    ELSE IF n.Data = "img" /\ attr.Key = "src" /\ attr.Val[1] # "data:" THEN <<attr.Val>>
    ELSE IF n.Data = "link" /\ attr.Key = "href" /\ HasStyleRel(n) THEN <<attr.Val>>
    ELSE IF n.Data = "script" /\ attr.Key = "src" THEN <<attr.Val>>
    ELSE IF n.Data = "source" /\ attr.Key = "srcset" THEN CandidateURLs(attr.Val)
    ELSE <<>>

\* the references of the first n nodes of a document, in document order
RECURSIVE QualifyingUpTo(_, _)
QualifyingUpTo(doc, n) ==
    IF n = 0 THEN <<>>
    ELSE QualifyingUpTo(doc, n - 1)
         \o Concat([k \in 1..Len(doc[n].Attr) |-> Qualifying(doc[n], doc[n].Attr[k])])

\* C23: extractAssets returns, in document order and with repetitions, one
\* reference for each qualifying attribute and nothing else: img src not
\* starting with data:, link href of an element whose rel is stylesheet, icon
\* or shortcut, script src, and the candidates of source srcset.
C23_ExtractedReferences ==
    Extracted => out = QualifyingUpTo(arg, Len(arg))

\* every srcset value of the document has no white space after a comma or
\* other than the space
PlainSrcsets(doc) ==
    \A i \in 1..Len(doc) : \A k \in 1..Len(doc[i].Attr) :
        doc[i].Attr[k].Key = "srcset" =>
            srcsetSources(doc[i].Attr[k].Val) = CandidateURLs(doc[i].Attr[k].Val)

\* (supporting C23) the claim holds of every document whose srcset values
\* the code splits as C22 says
C23_ButSrcset ==
    (Extracted /\ PlainSrcsets(arg)) => out = QualifyingUpTo(arg, Len(arg))

\* a check is between the start of its file server and its return
Serving == pc \in {"lighthouse_serving", "screenshots_serving"}

\* C24: a server started by the Lighthouse or the Screenshots check is closed
\* before that check returns, on every way out (success, tool failure,
\* capture failure, write failure): no server is open when the next check
\* starts or when the process exits, and a check that returns before
\* starting its server leaves none open.
C24_ServersClosed ==
    /\ servers \in {0, 1}
    /\ servers = 1 <=> Serving
    /\ Exited => servers = 0

\* both checks started a server and both failed after that; the run ended
\* with no server open
C24_Witness ==
    /\ Exited
    /\ hist.lighthouse \in LighthouseRunFailures
    /\ hist.captureStep \in {"desktop", "writeDesktop", "mobile", "writeMobile"}
    /\ servers = 0

\* the places of a reference where /_astro/ occurs
AstroAt(ref) == { k \in 1..Len(ref) : HasPrefix(From(ref, k), AstroDir) }

\* the candidate is the root followed by the reference from its first /_astro/
FromFirstAstro ==
    \E k \in AstroAt(arg) :
        /\ \A h \in AstroAt(arg) : k <= h
        /\ out = DistDir \o From(arg, k)

\* C25: for every reference that starts with "/" and holds /_astro/, the
\* candidate path is the root followed by the reference from that /_astro/
\* on, whatever the reference holds before or after it.
C25_AstroTruncation ==
    (Resolved /\ HasPrefix(arg, <<"/">>) /\ AstroAt(arg) # {}) => FromFirstAstro

\* (supporting C25) the claim holds of the references without /images/; one
\* with /images/ is cut at /images/ instead, also when that lies inside the
\* /_astro/ tree
C25_UnlessImages ==
    (Resolved /\ HasPrefix(arg, <<"/">>) /\ AstroAt(arg) # {}) =>
        IF ImagesAt(arg) = {} THEN FromFirstAstro ELSE FromFirstImages

\* findHTMLFiles was applied to the root of a tree and has returned
Walked == fn = "findHTMLFiles" /\ done

\* the directories of a tree
Present(tree) == { d \in DirPaths : tree[d] # NoSuchDir }

\* the entries at any depth that are no directories and whose name ends in
\* .html or .htm
HTMLPaths(tree) ==
    UNION { { Append(d, tree[d].entries[k].name) :
                k \in { h \in 1..Len(tree[d].entries) :
                           /\ ~tree[d].entries[h].isDir
                           /\ tree[d].entries[h].name \in {"b.html", "c.htm"} } } :
            d \in Present(tree) }

\* C26: for a tree whose directories can all be read, findHTMLFiles returns
\* the entries at any depth that are no directories and whose name ends in
\* .html or .htm, each once and nothing else; when the root or a directory
\* below it cannot be read it returns an error and no list.
C26_AllHTMLFiles ==
    Walked =>
        IF \A d \in Present(arg) : arg[d].err = ""
        THEN /\ out.err = ""
             /\ { out.files[i] : i \in 1..Len(out.files) } = HTMLPaths(arg)
             /\ Len(out.files) = Cardinality(HTMLPaths(arg))
        ELSE /\ out.err # ""
             /\ out.files = <<>>

\* files two levels down and inside a directory named e.html were found, the
\* directory e.html itself and d.txt were not
C26_Witness ==
    /\ Walked
    /\ out.err = ""
    /\ out.files = << <<"a", "a", "c.htm">>, <<"c.htm">>, <<"e.html", "b.html">> >>
    /\ \E k \in 1..Len(arg[<<>>].entries) : arg[<<>>].entries[k].name = "d.txt"

\* C27 (as stated): the order is depth-first with direct children first: for
\* every directory, each matching file that is its direct child comes before
\* every matching file found in one of its subdirectories.
C27_ChildrenFirst ==
    (Walked /\ out.err = "") =>
        \A d \in Present(arg) : \A i, j \in 1..Len(out.files) :
            (/\ HasPrefix(out.files[i], d) /\ Len(out.files[i]) = Len(d) + 1
             /\ HasPrefix(out.files[j], d) /\ Len(out.files[j]) > Len(d) + 1) => i < j

\* C27 (amended): the order is fixed by the tree and depth-first in the order
\* of the directory listings (by name): for every directory, what is found at
\* or beneath an earlier entry comes before what is found at or beneath a
\* later entry, so the files of a subdirectory stand at the place of that
\* subdirectory among its siblings.
C27_ListingOrder ==
    (Walked /\ out.err = "") =>
        \A d \in Present(arg) : \A h, k \in 1..Len(arg[d].entries) :
            h < k =>
                \A i, j \in 1..Len(out.files) :
                    (/\ HasPrefix(out.files[i], Append(d, arg[d].entries[h].name))
                     /\ HasPrefix(out.files[j], Append(d, arg[d].entries[k].name))) => i < j

\* the file of subdirectory a was returned before the root's own b.html
C27_Witness ==
    /\ Walked
    /\ out.err = ""
    /\ out.files = << <<"a", "b.html">>, <<"b.html">> >>

\* CheckVision was applied to an API answer and has returned
Scored == fn = "CheckVision" /\ done

\* the answer holds no OVERALL: X/10
NoOverallLine(toks) ==
    ~\E i \in 1..(Len(toks) - 3) :
        /\ toks[i] = "OVERALL:"
        /\ toks[i + 1] \in {"0", "9", "10", "15"}
        /\ toks[i + 2] = "/"
        /\ toks[i + 3] = "10"

\* the places of an answer that hold a number from 1 to 10 standing alone
OneToTenAt(toks) == { k \in 1..Len(toks) : toks[k] \in {"9", "10"} }

OwnSlotOnly ==
    /\ r'.Assets # r.Assets => pc \in {"start", "assets"}
    /\ r'.Build # r.Build => pc \in {"start", "build"}
    /\ r'.Lighthouse # r.Lighthouse => pc \in {"start", "lighthouse", "lighthouse_serving"}
    /\ r'.Screenshots # r.Screenshots =>
           pc \in {"start", "screenshots", "screenshots_serving"}
    /\ r'.Vision # r.Vision => pc \in {"start", "vision"}
    /\ \A i \in 1..Len(serialized') :
           /\ Has("ASSETS")' => serialized'[i].Assets = r'.Assets
           /\ Has("BUILD")' => serialized'[i].Build = r'.Build
           /\ Has("LIGHTHOUSE")' => serialized'[i].Lighthouse = r'.Lighthouse
           /\ Has("SCREENSHOTS")' => serialized'[i].Screenshots = r'.Screenshots
           /\ Has("VISION")' => serialized'[i].Vision = r'.Vision

\* C29: each stage changes only the result of its own check: once a stage is
\* over, no later stage, and neither the summary nor the serialization,
\* changes what it recorded, so the serialized report shows the result of
\* each executed check as its stage left it.
C29_Frame == [][OwnSlotOnly]_vars

\* all five stages ran, the summary was rendered and the report serialized
C29_Witness ==
    /\ Exited
    /\ Len(started) = 5
    /\ Len(printed) = 1
    /\ Len(serialized) = 1
    /\ serialized[1].Lighthouse.Status = "SKIP"
    /\ serialized[1].Screenshots.Status = "SKIP"
    /\ serialized[1].Vision.Status = "FAIL"

\* C30: whenever a run performs the Vision comparison, the two new images it
\* compares, screenshots/desktop.png and screenshots/mobile.png, were written
\* by the Screenshots check of the same run, never left by an earlier run.
C30_SameRunScreenshots ==
    VisionCompared => fs[DesktopPath] = "fresh" /\ fs[MobilePath] = "fresh"

\* when the Screenshots check of the run passed, the images compared are its own
C30_AfterPassedCapture ==
    VisionCompared /\ r.Screenshots.Status = "PASS"
        => fs[DesktopPath] = "fresh" /\ fs[MobilePath] = "fresh"

\* the file a path names lies in the site root: the root itself or below it
InsideRoot(path) ==
    LET c == Clean(path)
    IN  c = DistDir \/ HasPrefix(c, DistDir \o <<"/">>)

\* the reference has a ".." segment
HasDotDot(ref) ==
    \E k \in 1..Len(Elements(ref)) : Elements(ref)[k] = <<".", ".">>

\* C31: for every reference, root-relative, ./-prefixed or bare relative,
\* with or without ".." segments, the candidate path whose existence is
\* tested lies inside the site root directory.
C31_InsideRoot ==
    Resolved => InsideRoot(out)

\* the candidate of a reference without ".." segments lies inside the root
C31_WithoutDotDot ==
    (Resolved /\ ~HasDotDot(arg)) => InsideRoot(out)

====
